---- MODULE Spec2Model ----
(***************************************************************************)
(* A model of deploy.py: one run of the deployment script, from argument   *)
(* parsing to process exit.  Each external command the script invokes is   *)
(* one step; the Revision Store (git) and the Builder (mvn) are the        *)
(* environment, whose exit statuses and outputs are chosen                 *)
(* nondeterministically within what the tools can produce.                 *)
(*                                                                         *)
(* Strings the script computes with (tag names, version labels, name-rev   *)
(* output, sort keys) are sequences of one-character strings.              *)
(***************************************************************************)
EXTENDS Integers, Sequences, FiniteSets, TLC

\* ------------------------------------------------------------------ bounds

\* Largest number of revisions given on the command line.
MaxBatch == 2

\* Longest label in the batches of SortSpec.
MaxLabelLen == 3

\* ------------------------------------------------------- strings and labels

Digits == {"0", "1", "2", "3", "4", "5", "6", "7", "8", "9"}

IsDigit(c) == c \in Digits

\* Code point of a character: Python compares str values by code point.
Ord(c) ==
    CASE c = "." -> 46
      [] c = "0" -> 48 [] c = "1" -> 49 [] c = "2" -> 50 [] c = "3" -> 51
      [] c = "4" -> 52 [] c = "5" -> 53 [] c = "6" -> 54 [] c = "7" -> 55
      [] c = "8" -> 56 [] c = "9" -> 57
      [] c = "^" -> 94
      [] c = "v" -> 118
      [] c = "~" -> 126

\* a < b for str values: the first differing character decides, a proper
\* prefix is smaller.
RECURSIVE StrLess(_, _)
StrLess(a, b) ==
    IF b = <<>> THEN FALSE
    ELSE IF a = <<>> THEN TRUE
    ELSE IF a[1] = b[1] THEN StrLess(Tail(a), Tail(b))
    ELSE Ord(a[1]) < Ord(b[1])

\* Length of the run of digits s starts with.
RECURSIVE DigitRunLen(_)
DigitRunLen(s) ==
    IF s = <<>> \/ ~IsDigit(s[1]) THEN 0 ELSE 1 + DigitRunLen(Tail(s))

Ones(n) == [k \in 1..n |-> "1"]

\* num_sort_key: every maximal run x of digits is replaced by
\* '1' * len(x) + '0' + x; every other character is kept.
RECURSIVE num_sort_key(_)
num_sort_key(str) ==
    IF str = <<>> THEN <<>>
    ELSE IF IsDigit(str[1])
         THEN LET n == DigitRunLen(str)
              IN  Ones(n) \o <<"0">> \o SubSeq(str, 1, n)
                    \o num_sort_key(SubSeq(str, n + 1, Len(str)))
         ELSE <<str[1]>> \o num_sort_key(Tail(str))

\* Position at which sorted() places x among the already sorted xs: after
\* every element whose key is not greater (the sort is stable).
RECURSIVE InsertByKey(_, _)
InsertByKey(xs, x) ==
    IF xs = <<>> THEN <<x>>
    ELSE IF StrLess(num_sort_key(x), num_sort_key(xs[1]))
         THEN <<x>> \o xs
         ELSE <<xs[1]>> \o InsertByKey(Tail(xs), x)

\* sorted(versions, key = num_sort_key)
RECURSIVE SortedVersions(_)
SortedVersions(vs) ==
    IF vs = <<>> THEN <<>>
    ELSE InsertByKey(SortedVersions(SubSeq(vs, 1, Len(vs) - 1)), vs[Len(vs)])

\* CommitMessage, were the labels listed in the order of the batch.
CommitMessageUnsorted(vs) ==
    [noun   |-> IF Len(vs) > 1 THEN "versions" ELSE "version",
     labels |-> vs]

\* The commit message 'Deployment of {} {}.': the noun and the labels that
\* ', '.join lists, in their listed order.  The join loses nothing: a git
\* ref name holds no space, so ', ' separates the labels unambiguously.
CommitMessage(vs) ==
    [noun   |-> IF Len(vs) > 1 THEN "versions" ELSE "version",
     labels |-> SortedVersions(vs)]

\* Index of the last occurrence of ch in s, 0 if there is none.
RECURSIVE LastIndexOf(_, _)
LastIndexOf(s, ch) ==
    IF s = <<>> THEN 0
    ELSE IF s[Len(s)] = ch THEN Len(s)
    ELSE LastIndexOf(SubSeq(s, 1, Len(s) - 1), ch)

\* str.rsplit(ch, 1): split at the last ch, if there is one.
RSplit1(s, ch) ==
    LET k == LastIndexOf(s, ch)
    IN  IF k = 0 THEN <<s>>
        ELSE <<SubSeq(s, 1, k - 1), SubSeq(s, k + 1, Len(s))>>

\* ParseNameRev, were the suffix left on the label.
ParseNameRevUnstripped(out) == [res |-> out, assertOk |-> TRUE]

\* git_name_rev after the command: the label returned, and whether the
\* assertion on the stripped suffix holds.
ParseNameRev(out) ==
    LET parts == RSplit1(out, "^")
    IN  [res      |-> parts[1],
         assertOk |-> Len(parts) = 1 \/ parts[2] = <<"0">>]

\* --------------------------------------------------------- Revision Store

\* No value: args.release when --release is absent.
None == <<>>

V1 == <<"v", "1">>
V2 == <<"v", "2">>
V10 == <<"v", "1", "0">>

\* Tag names of the project repository, and the labels --release is given.
TagNames == {V1, V2, V10}
InitialTagNames == {V2, V10}
ReleaseLabels == {V1, V2}

\* The tags of the project repository before the run, each on a commit or
\* "none": v2 anywhere, v10 on HEAD if at all, v1 not yet there.
InitialTags ==
    {t \in [TagNames -> {"M", "A", "B", "none"}] :
        /\ \A n \in TagNames \ InitialTagNames : t[n] = "none"
        /\ t[V10] \in {"M", "none"}}

\* The history of the project repository: HEAD is the merge commit "M",
\* whose first parent is "A" and whose second parent is "B".
Commits == {"M", "A", "B"}

\* Revisions as given on the command line, and the release revision
\* 'refs/tags/{}'.format(args.release).
ArgRev(r) == [ref |-> r, tag |-> None]
TagRev(label) == [ref |-> "refs/tags", tag |-> label]
ArgRevs == {ArgRev("HEAD"), ArgRev("A"), ArgRev("B")}

\* The commit a revision names in a repository with these tags.
Resolve(tags, rev) ==
    IF rev.ref = "HEAD" THEN "M"
    ELSE IF rev.ref = "refs/tags" THEN tags[rev.tag]
    ELSE rev.ref

TagsAt(tags, c) == {t \in DOMAIN tags : tags[t] = c}

\* What 'git name-rev --no-undefined --name-only --tags' can print for
\* commit c: a tag on c, bare or with the suffix '^0' git gives an annotated
\* tag, or a tag on the merge commit followed by the path from it to c; git
\* chooses among them by the age of the tags.  The empty set: the command
\* exits non-zero.
NameRevOutputs(tags, c) ==
    IF c \notin Commits THEN {}
    ELSE UNION {{t, t \o <<"^", "0">>} : t \in TagsAt(tags, c)}
         \cup (IF c = "A" THEN {t \o <<"~", "1">> : t \in TagsAt(tags, "M")}
               ELSE IF c = "B" THEN {t \o <<"^", "2">> : t \in TagsAt(tags, "M")}
               ELSE {})

\* The artifact branch: a sequence of commits, oldest first, the tip last;
\* the empty sequence when the ref does not exist.  A tree is the set of
\* version labels whose artifacts it holds.
InitialCommit == [tree |-> {V2}, message |-> [noun |-> "version", labels |-> <<V2>>]]

\* What HEAD of a fresh mirror clone of the deployment repository names:
\* the repository's own default branch, not the artifact branch.
MainHistory == <<[tree |-> {}, message |-> [noun |-> "main", labels |-> <<>>]]>>

TipTree(history) == IF history = <<>> THEN {} ELSE history[Len(history)].tree

IsPrefix(a, b) == Len(a) <= Len(b) /\ SubSeq(b, 1, Len(a)) = a

SeqsUpTo(S, n) == UNION {[1..k -> S] : k \in 0..n}

\* ------------------------------------------------------------------- state

VARIABLES
    pc,            \* the step the run is at
    argv,          \* the revisions given on the command line
    release,       \* args.release
    debug,         \* args.debug
    revisions,     \* args.revisions
    workspace,     \* temp_dir: "none", "present" or "removed"
    baseDir,       \* whether the directory 'tmp' exists
    projTags,      \* tags of the project repository
    originTags,    \* tags on the project repository's origin
    cloneTags,     \* tags of project_repo_clone
    deployBranch,  \* the artifact branch in the deployment repository
    originBranch,  \* the artifact branch on the deployment repository's origin
    cloneHead,     \* what HEAD of deploy_repo_clone names
    checkout,      \* the tree in deploy_repo_checkout
    i,             \* index of the revision the loop is at
    res,           \* output of the last name-rev
    version,       \* label of the revision the loop is at
    versions,      \* labels of the revisions deployed
    log,           \* the external commands invoked, with how each ended
    raised,        \* the exception that ended the run
    exitCode,      \* exit status of the process
    stdout,        \* whether the confirmation line was printed
    stderr,        \* lines written to standard error
    before         \* the repositories as they were when the run started

vars == <<pc, argv, release, debug, revisions, workspace, baseDir, projTags,
          originTags, cloneTags, deployBranch, originBranch, cloneHead,
          checkout, i, res, version, versions, log, raised, exitCode, stdout,
          stderr, before>>

NoException == [at |-> "none", exc |-> "none"]
\* exitCode while the process has not exited.
Running == 0 - 1

Init ==
    /\ pc = "parse_args"
    /\ argv \in SeqsUpTo(ArgRevs, MaxBatch)
    /\ release \in {None} \cup ReleaseLabels
    /\ debug \in BOOLEAN
    /\ revisions = <<>>
    /\ workspace = "none"
    /\ baseDir \in (IF debug THEN BOOLEAN ELSE {FALSE})
    /\ projTags \in InitialTags
    /\ originTags = {n \in TagNames : projTags[n] # "none"}
    /\ cloneTags = [n \in TagNames |-> "none"]
    /\ deployBranch \in {<<>>, <<InitialCommit>>}
    /\ originBranch = deployBranch
    /\ cloneHead = <<>>
    /\ checkout = {}
    /\ i = 0
    /\ res = <<>>
    /\ version = <<>>
    /\ versions = <<>>
    /\ log = <<>>
    /\ raised = NoException
    /\ exitCode = Running
    /\ stdout = FALSE
    /\ stderr = <<>>
    /\ before = [tags |-> projTags, originTags |-> originTags,
                 branch |-> deployBranch, originBranch |-> originBranch]

\* ------------------------------------------------------- how a run ends

\* log(): one line on standard error.
ProgressLine(label) == [kind |-> "progress", cmd |-> "", label |-> label]
ErrorLine(cmd) == [kind |-> "error", cmd |-> cmd, label |-> <<>>]
InterruptLine == [kind |-> "interrupted", cmd |-> "", label |-> <<>>]

\* What the interpreter prints for an exception nothing catches.
Traceback ==
    <<[kind |-> "traceback", cmd |-> "Traceback (most recent call last):", label |-> <<>>],
      [kind |-> "traceback", cmd |-> "  File ..., in git_name_rev", label |-> <<>>],
      [kind |-> "traceback", cmd |-> "AssertionError", label |-> <<>>]>>

\* Released, were the directory never removed.
ReleasedNever(ws) == ws

\* make_temp_dir on the way out of the with block: the directory is removed
\* unless debug is set.
Released(ws) == IF ws = "present" /\ ~debug THEN "removed" ELSE ws

ExitStatus(exc) == IF exc = "KeyboardInterrupt" THEN 2 ELSE 1

\* An exception leaves main: the with block releases the workspace and the
\* handlers at the end of the module, or the interpreter, report it.  lines
\* are the lines written before it was raised.
Raise(exc, lines) ==
    /\ pc' = "exited"
    /\ raised' = [at |-> pc, exc |-> exc]
    /\ exitCode' = ExitStatus(exc)
    /\ stderr' = stderr \o lines \o
                   (CASE exc = "UserError" -> <<>>
                      [] exc = "KeyboardInterrupt" -> <<InterruptLine>>
                      [] OTHER -> Traceback)
    /\ workspace' = Released(workspace)

\* command(): a non-zero exit status raises UserError naming the command.
CommandFailed(cmd, lines) == Raise("UserError", lines \o <<ErrorLine(cmd)>>)

Logged(cmd, ok) == log' = Append(log, [cmd |-> cmd, ok |-> ok, at |-> pc])

\* ------------------------------------------------------------------- steps

\* parse_args: with no revision given, argparse hands out the default list
\* ['HEAD'], and the check that follows sees a non-empty list.
ParseArgs ==
    /\ pc = "parse_args"
    /\ revisions' = IF argv = <<>> THEN <<ArgRev("HEAD")>> ELSE argv
    /\ IF revisions' = <<>> /\ release = None
       THEN Raise("UserError", <<ErrorLine("parse_args")>>)
       ELSE pc' = "get_project_repo" /\ UNCHANGED <<raised, exitCode, stderr, workspace>>
    /\ UNCHANGED <<argv, release, debug, baseDir, projTags, originTags,
                   cloneTags, deployBranch, originBranch, cloneHead, checkout,
                   i, res, version, versions, log, stdout, before>>

\* A command that changes nothing the model keeps: it ends well, and the
\* run goes on at step next, or it fails.
PlainCommand(at, cmd, next) ==
    /\ pc = at
    /\ \E ok \in BOOLEAN :
        /\ Logged(cmd, ok)
        /\ IF ok
           THEN pc' = next /\ UNCHANGED <<raised, exitCode, stderr, workspace>>
           ELSE CommandFailed(cmd, <<>>)
    /\ UNCHANGED <<argv, release, debug, revisions, baseDir, projTags,
                   originTags, cloneTags, deployBranch, originBranch,
                   cloneHead, checkout, i, res, version, versions, stdout,
                   before>>

\* project_repo = git_get_repo(os.getcwd())
GetProjectRepo == PlainCommand("get_project_repo", "git rev-parse --git-dir", "get_deploy_repo")

\* deploy_repo = git_get_repo(...)
GetDeployRepo == PlainCommand("get_deploy_repo", "git rev-parse --git-dir", "make_temp_dir")

\* with make_temp_dir(args.debug) as temp_dir
MakeTempDir ==
    /\ pc = "make_temp_dir"
    /\ baseDir' = (baseDir \/ debug)
    /\ workspace' = "present"
    /\ pc' = IF release # None THEN "release_checkout" ELSE "ref_exists"
    /\ UNCHANGED <<argv, release, debug, revisions, projTags, originTags,
                   cloneTags, deployBranch, originBranch, cloneHead, checkout,
                   i, res, version, versions, log, raised, exitCode, stdout,
                   stderr, before>>

\* log('Deploying version ...'); os.mkdir; git_checkout(project_repo, ..., 'HEAD')
ReleaseCheckout ==
    /\ pc = "release_checkout"
    /\ \E ok \in BOOLEAN :
        /\ Logged("git checkout", ok)
        /\ IF ok
           THEN /\ pc' = "release_package"
                /\ stderr' = Append(stderr, ProgressLine(release))
                /\ UNCHANGED <<raised, exitCode, workspace>>
           ELSE CommandFailed("git checkout", <<ProgressLine(release)>>)
    /\ UNCHANGED <<argv, release, debug, revisions, baseDir, projTags,
                   originTags, cloneTags, deployBranch, originBranch,
                   cloneHead, checkout, i, res, version, versions, stdout,
                   before>>

\* The run goes on at step next whether the command failed or not.
UncheckedCommand(at, cmd, next) ==
    /\ pc = at
    /\ \E ok \in BOOLEAN : Logged(cmd, ok)
    /\ pc' = next
    /\ UNCHANGED <<argv, release, debug, revisions, workspace, baseDir,
                   projTags, originTags, cloneTags, deployBranch, originBranch,
                   cloneHead, checkout, i, res, version, versions, raised,
                   exitCode, stdout, stderr, before>>

\* ReleasePackage, were a failed build not to stop the run.
ReleasePackageUnchecked == UncheckedCommand("release_package", "mvn package", "release_tag")

\* maven(release_checkout_dir, 'package')
ReleasePackage == PlainCommand("release_package", "mvn package", "release_tag")

\* git_tag(project_repo, args.release, 'HEAD'): git refuses a tag that exists.
ReleaseTag ==
    /\ pc = "release_tag"
    /\ \E ok \in (IF projTags[release] = "none" THEN BOOLEAN ELSE {FALSE}) :
        /\ Logged("git tag", ok)
        /\ IF ok
           THEN /\ pc' = "release_push"
                /\ projTags' = [projTags EXCEPT ![release] = "M"]
                /\ UNCHANGED <<raised, exitCode, stderr, workspace>>
           ELSE CommandFailed("git tag", <<>>) /\ UNCHANGED projTags
    /\ UNCHANGED <<argv, release, debug, revisions, baseDir, originTags,
                   cloneTags, deployBranch, originBranch, cloneHead, checkout,
                   i, res, version, versions, stdout, before>>

\* ReleasePush, were the tag pushed to no ref of origin.
ReleasePushNowhere ==
    /\ pc = "release_push"
    /\ \E ok \in BOOLEAN :
        /\ Logged("git push tag", ok)
        /\ IF ok
           THEN /\ pc' = "ref_exists"
                /\ revisions' = Append(revisions, TagRev(release))
                /\ UNCHANGED <<raised, exitCode, stderr, workspace>>
           ELSE CommandFailed("git push tag", <<>>) /\ UNCHANGED revisions
    /\ UNCHANGED <<argv, release, debug, baseDir, projTags, originTags,
                   cloneTags, deployBranch, originBranch, cloneHead, checkout,
                   i, res, version, versions, stdout, before>>

\* git_push(project_repo, 'origin', revision); revisions.append(revision)
ReleasePush ==
    /\ pc = "release_push"
    /\ \E ok \in BOOLEAN :
        /\ Logged("git push tag", ok)
        /\ IF ok
           THEN /\ pc' = "ref_exists"
                /\ originTags' = originTags \cup {release}
                /\ revisions' = Append(revisions, TagRev(release))
                /\ UNCHANGED <<raised, exitCode, stderr, workspace>>
           ELSE CommandFailed("git push tag", <<>>) /\ UNCHANGED <<originTags, revisions>>
    /\ UNCHANGED <<argv, release, debug, baseDir, projTags, cloneTags,
                   deployBranch, originBranch, cloneHead, checkout, i, res,
                   version, versions, stdout, before>>

\* os.mkdir(deploy_repo_checkout); git_ref_exists(deploy_repo, args.branch):
\* the exit status is the answer, and no status raises.
RefExists ==
    /\ pc = "ref_exists"
    /\ Logged("git rev-parse branch", deployBranch # <<>>)
    /\ pc' = IF deployBranch # <<>> THEN "deploy_clone" ELSE "deploy_init"
    /\ UNCHANGED <<argv, release, debug, revisions, workspace, baseDir,
                   projTags, originTags, cloneTags, deployBranch, originBranch,
                   cloneHead, checkout, i, res, version, versions, raised,
                   exitCode, stdout, stderr, before>>

\* A command on the scratch clone of the deployment repository and its
\* checkout, which become head and tree when it ends well.
ScratchCommand(at, cmd, next, head, tree) ==
    /\ pc = at
    /\ \E ok \in BOOLEAN :
        /\ Logged(cmd, ok)
        /\ IF ok
           THEN /\ pc' = next
                /\ cloneHead' = head
                /\ checkout' = tree
                /\ UNCHANGED <<raised, exitCode, stderr, workspace>>
           ELSE CommandFailed(cmd, <<>>) /\ UNCHANGED <<cloneHead, checkout>>
    /\ UNCHANGED <<argv, release, debug, revisions, baseDir, projTags,
                   originTags, cloneTags, deployBranch, originBranch, i, res,
                   version, versions, stdout, before>>

\* git_clone(deploy_repo, deploy_repo_clone)
DeployClone == ScratchCommand("deploy_clone", "git clone deploy_repo", "deploy_checkout", MainHistory, checkout)

\* DeployCheckout, were the files of the branch not written to the checkout.
DeployCheckoutNothing == ScratchCommand("deploy_checkout", "git checkout branch", "deploy_reset", cloneHead, checkout)

\* git_checkout(deploy_repo_clone, deploy_repo_checkout, args.branch)
DeployCheckout == ScratchCommand("deploy_checkout", "git checkout branch", "deploy_reset", cloneHead, TipTree(deployBranch))

\* git_reset(deploy_repo_clone, args.branch)
DeployReset == ScratchCommand("deploy_reset", "git reset --soft", "project_clone", deployBranch, checkout)

\* git_init(deploy_repo_clone)
DeployInit == ScratchCommand("deploy_init", "git init --bare", "project_clone", <<>>, checkout)

\* Where the loop over args.revisions goes after k revisions.
LoopAt(k) == IF k < Len(revisions) THEN "name_rev" ELSE "add"

\* git_clone(project_repo, project_repo_clone)
ProjectClone ==
    /\ pc = "project_clone"
    /\ \E ok \in BOOLEAN :
        /\ Logged("git clone project_repo", ok)
        /\ IF ok
           THEN /\ pc' = LoopAt(0)
                /\ cloneTags' = projTags
                /\ i' = 1
                /\ UNCHANGED <<raised, exitCode, stderr, workspace>>
           ELSE CommandFailed("git clone project_repo", <<>>) /\ UNCHANGED <<cloneTags, i>>
    /\ UNCHANGED <<argv, release, debug, revisions, baseDir, projTags,
                   originTags, deployBranch, originBranch, cloneHead, checkout,
                   res, version, versions, stdout, before>>

\* version = git_name_rev(project_repo_clone, x); log('Deploying version ...')
NameRev ==
    /\ pc = "name_rev"
    /\ LET outs == NameRevOutputs(cloneTags, Resolve(cloneTags, revisions[i]))
       IN  \/ /\ Logged("git name-rev", FALSE)
              /\ CommandFailed("git name-rev", <<>>)
              /\ UNCHANGED <<res, version>>
           \/ \E out \in outs :
               /\ Logged("git name-rev", TRUE)
               /\ res' = out
               /\ IF ParseNameRev(out).assertOk
                  THEN /\ version' = ParseNameRev(out).res
                       /\ stderr' = Append(stderr, ProgressLine(version'))
                       /\ pc' = "checkout"
                       /\ UNCHANGED <<raised, exitCode, workspace>>
                  ELSE Raise("AssertionError", <<>>) /\ UNCHANGED version
    /\ UNCHANGED <<argv, release, debug, revisions, baseDir, projTags,
                   originTags, cloneTags, deployBranch, originBranch,
                   cloneHead, checkout, i, versions, stdout, before>>

\* CheckoutRevision, were the sources of the revision checked out into the
\* checkout of the artifact branch.
CheckoutRevisionIntoArtifacts ==
    ScratchCommand("checkout", "git checkout revision", "versions_set",
                   cloneHead, checkout \cup {<<"p", "o", "m">>})

\* CheckoutRevision, were a failed checkout not to stop the run.
CheckoutRevisionUnchecked == UncheckedCommand("checkout", "git checkout revision", "versions_set")

\* os.mkdir(deploy_checkout_dir); git_checkout(project_repo_clone, ..., x)
CheckoutRevision == PlainCommand("checkout", "git checkout revision", "versions_set")

\* MavenVersionsSet, were a failed build not to stop the run.
MavenVersionsSetUnchecked == UncheckedCommand("versions_set", "mvn versions:set", "deploy")

\* maven_versions_set(deploy_checkout_dir, version)
MavenVersionsSet == PlainCommand("versions_set", "mvn versions:set", "deploy")

\* MavenDeploy, were a failed build not to stop the run.
MavenDeployUnchecked ==
    /\ pc = "deploy"
    /\ \E ok \in BOOLEAN : Logged("mvn deploy", ok)
    /\ pc' = LoopAt(i)
    /\ checkout' = checkout \cup {version}
    /\ versions' = Append(versions, version)
    /\ i' = i + 1
    /\ UNCHANGED <<argv, release, debug, revisions, workspace, baseDir,
                   projTags, originTags, cloneTags, deployBranch, originBranch,
                   cloneHead, res, version, raised, exitCode, stdout, stderr,
                   before>>

\* maven_deploy(deploy_checkout_dir, deploy_repo_checkout);
\* versions.append(version).  The Builder writes the artifacts of the
\* version into the checkout; a build that fails may have written them.
MavenDeploy ==
    /\ pc = "deploy"
    /\ \E ok \in BOOLEAN :
        /\ Logged("mvn deploy", ok)
        /\ IF ok
           THEN /\ pc' = LoopAt(i)
                /\ checkout' = checkout \cup {version}
                /\ versions' = Append(versions, version)
                /\ i' = i + 1
                /\ UNCHANGED <<raised, exitCode, stderr, workspace>>
           ELSE /\ CommandFailed("mvn deploy", <<>>)
                /\ checkout' \in {checkout, checkout \cup {version}}
                /\ UNCHANGED <<versions, i>>
    /\ UNCHANGED <<argv, release, debug, revisions, baseDir, projTags,
                   originTags, cloneTags, deployBranch, originBranch,
                   cloneHead, res, version, stdout, before>>

\* git_commit_all: git add --all .
GitAdd == PlainCommand("add", "git add", "commit")

\* GitCommit, were a commit that changes nothing allowed.
GitCommitAllowEmpty ==
    /\ pc = "commit"
    /\ \E ok \in BOOLEAN :
        /\ Logged("git commit", ok)
        /\ IF ok
           THEN /\ pc' = "push_local"
                /\ cloneHead' = Append(cloneHead,
                       [tree |-> checkout, message |-> CommitMessage(versions)])
                /\ UNCHANGED <<raised, exitCode, stderr, workspace>>
           ELSE CommandFailed("git commit", <<>>) /\ UNCHANGED cloneHead
    /\ UNCHANGED <<argv, release, debug, revisions, baseDir, projTags,
                   originTags, cloneTags, deployBranch, originBranch, checkout,
                   i, res, version, versions, stdout, before>>

\* git_commit_all: git commit --message=...; git refuses a commit that
\* changes nothing.
GitCommit ==
    /\ pc = "commit"
    /\ \E ok \in (IF checkout # TipTree(cloneHead) THEN BOOLEAN ELSE {FALSE}) :
        /\ Logged("git commit", ok)
        /\ IF ok
           THEN /\ pc' = "push_local"
                /\ cloneHead' = Append(cloneHead,
                       [tree |-> checkout, message |-> CommitMessage(versions)])
                /\ UNCHANGED <<raised, exitCode, stderr, workspace>>
           ELSE CommandFailed("git commit", <<>>) /\ UNCHANGED cloneHead
    /\ UNCHANGED <<argv, release, debug, revisions, baseDir, projTags,
                   originTags, cloneTags, deployBranch, originBranch, checkout,
                   i, res, version, versions, stdout, before>>

\* PushLocal, were a refused push not to stop the run.
PushLocalUnchecked == UncheckedCommand("push_local", "git push deploy_repo", "push_remote")

\* git_push(deploy_repo_clone, deploy_repo, ('HEAD', args.branch)): git
\* refuses a push that is not a fast-forward.
PushLocal ==
    /\ pc = "push_local"
    /\ \E ok \in (IF IsPrefix(deployBranch, cloneHead) THEN BOOLEAN ELSE {FALSE}) :
        /\ Logged("git push deploy_repo", ok)
        /\ IF ok
           THEN /\ pc' = "push_remote"
                /\ deployBranch' = cloneHead
                /\ UNCHANGED <<raised, exitCode, stderr, workspace>>
           ELSE CommandFailed("git push deploy_repo", <<>>) /\ UNCHANGED deployBranch
    /\ UNCHANGED <<argv, release, debug, revisions, baseDir, projTags,
                   originTags, cloneTags, originBranch, cloneHead, checkout,
                   i, res, version, versions, stdout, before>>

\* git_push(deploy_repo, 'origin', args.branch), and the end of the with
\* block.
PushRemote ==
    /\ pc = "push_remote"
    /\ \E ok \in (IF IsPrefix(originBranch, deployBranch) THEN BOOLEAN ELSE {FALSE}) :
        /\ Logged("git push origin", ok)
        /\ IF ok
           THEN /\ pc' = "print"
                /\ originBranch' = deployBranch
                /\ workspace' = Released(workspace)
                /\ UNCHANGED <<raised, exitCode, stderr>>
           ELSE CommandFailed("git push origin", <<>>) /\ UNCHANGED originBranch
    /\ UNCHANGED <<argv, release, debug, revisions, baseDir, projTags,
                   originTags, cloneTags, deployBranch, cloneHead, checkout,
                   i, res, version, versions, stdout, before>>

\* print('Deployment was successful.'), and the process ends.
PrintSuccess ==
    /\ pc = "print"
    /\ stdout' = TRUE
    /\ exitCode' = 0
    /\ pc' = "exited"
    /\ UNCHANGED <<argv, release, debug, revisions, workspace, baseDir,
                   projTags, originTags, cloneTags, deployBranch, originBranch,
                   cloneHead, checkout, i, res, version, versions, log, raised,
                   stderr, before>>

\* The operator interrupts the run: KeyboardInterrupt is raised where the
\* run is.
Interrupt ==
    /\ pc # "exited"
    /\ Raise("KeyboardInterrupt", <<>>)
    /\ UNCHANGED <<argv, release, debug, revisions, baseDir, projTags,
                   originTags, cloneTags, deployBranch, originBranch,
                   cloneHead, checkout, i, res, version, versions, log, stdout,
                   before>>

\* The steps from git_commit_all on.
CommitAndPublish ==
    \/ GitAdd
    \/ GitCommit
    \/ PushLocal
    \/ PushRemote
    \/ PrintSuccess
    \/ Interrupt

Next ==
    \/ ParseArgs
    \/ GetProjectRepo
    \/ GetDeployRepo
    \/ MakeTempDir
    \/ ReleaseCheckout
    \/ ReleasePackage
    \/ ReleaseTag
    \/ ReleasePush
    \/ RefExists
    \/ DeployClone
    \/ DeployCheckout
    \/ DeployReset
    \/ DeployInit
    \/ ProjectClone
    \/ NameRev
    \/ CheckoutRevision
    \/ MavenVersionsSet
    \/ MavenDeploy
    \/ CommitAndPublish

Spec == Init /\ [][Next]_vars

\* ------------------------------------------- the commit step on any labels

\* Labels of the batches SortSpec starts from.
SortAlphabet == {"0", "1", "2", "v"}
SortLabels == SeqsUpTo(SortAlphabet, MaxLabelLen) \ {<<>>}

\* The revisions whose labels are vs: HEAD and its first parent when the two
\* labels differ, HEAD twice when they are the same.
SortRevisions(vs) ==
    IF vs[1] # vs[2] THEN <<ArgRev("HEAD"), ArgRev("A")>>
    ELSE <<ArgRev("HEAD"), ArgRev("HEAD")>>

SortTags(vs) == [t \in {vs[1], vs[2]} |-> IF t = vs[1] THEN "M" ELSE "A"]

\* The commands of a run without --release that found no artifact branch
\* and deployed two revisions.
SortLog ==
    <<[cmd |-> "git rev-parse --git-dir", ok |-> TRUE, at |-> "get_project_repo"],
      [cmd |-> "git rev-parse --git-dir", ok |-> TRUE, at |-> "get_deploy_repo"],
      [cmd |-> "git rev-parse branch", ok |-> FALSE, at |-> "ref_exists"],
      [cmd |-> "git init --bare", ok |-> TRUE, at |-> "deploy_init"],
      [cmd |-> "git clone project_repo", ok |-> TRUE, at |-> "project_clone"]>>
    \o [k \in 1..8 |->
          [cmd |-> <<"git name-rev", "git checkout revision",
                     "mvn versions:set", "mvn deploy">>[((k - 1) % 4) + 1],
           ok  |-> TRUE,
           at  |-> <<"name_rev", "checkout", "versions_set", "deploy">>[((k - 1) % 4) + 1]]]

\* A run that has deployed two revisions, whose tags are any two labels,
\* and is about to commit.
SortInit ==
    /\ pc = "add"
    /\ versions \in [1..2 -> SortLabels]
    /\ revisions = SortRevisions(versions)
    /\ argv = revisions
    /\ release = None
    /\ debug = FALSE
    /\ workspace = "present"
    /\ baseDir = FALSE
    /\ projTags = SortTags(versions)
    /\ originTags = DOMAIN projTags
    /\ cloneTags = projTags
    /\ deployBranch = <<>>
    /\ originBranch = <<>>
    /\ cloneHead = <<>>
    /\ checkout = {versions[1], versions[2]}
    /\ i = 3
    /\ res = versions[2]
    /\ version = versions[2]
    /\ log = SortLog
    /\ raised = NoException
    /\ exitCode = Running
    /\ stdout = FALSE
    /\ stderr = <<ProgressLine(versions[1]), ProgressLine(versions[2])>>
    /\ before = [tags |-> projTags, originTags |-> originTags,
                 branch |-> deployBranch, originBranch |-> originBranch]

SortSpec == SortInit /\ [][CommitAndPublish]_vars

\* -------------------------------------------------------------- properties

LogIndex == 1..Len(log)

Invoked(cmd) == \E k \in LogIndex : log[k].cmd = cmd
Succeeded(cmd) == \E k \in LogIndex : log[k].cmd = cmd /\ log[k].ok
Failed(cmd) == \E k \in LogIndex : log[k].cmd = cmd /\ ~log[k].ok
TimesInvoked(cmd) == Cardinality({k \in LogIndex : log[k].cmd = cmd})

Exited == pc = "exited"

\* C1: in a run with a release label, git tag and the push of the tag are
\* invoked only after a package build that succeeded, the command that
\* follows a successful package build is git tag, and the tags of the
\* project repository and of origin differ from what they were only in a
\* run whose package build succeeded.
C1_TagOnlyAfterValidation ==
    /\ \A k \in LogIndex :
         log[k].cmd \in {"git tag", "git push tag"} =>
            \E j \in 1..(k - 1) : log[j].cmd = "mvn package" /\ log[j].ok
    /\ \A j \in LogIndex :
         (log[j].cmd = "mvn package" /\ log[j].ok /\ j < Len(log)) =>
            log[j + 1].cmd = "git tag"
    /\ (projTags # before.tags \/ originTags # before.originTags) =>
         (release # None /\ Succeeded("mvn package"))
    /\ (release # None /\ (Failed("mvn package") \/ ~Invoked("mvn package"))) =>
         (~Invoked("git tag") /\ ~Invoked("git push tag"))

C1_Witness ==
    /\ release # None
    /\ Succeeded("mvn package")
    /\ Succeeded("git tag")
    /\ projTags[release] = "M"
    /\ before.tags[release] = "none"

\* C2: git_commit_all is invoked at most once in a run, and never in a run
\* in which versions:set or deploy of a revision failed.
C2_CommitAtMostOnce ==
    /\ TimesInvoked("git add") <= 1
    /\ TimesInvoked("git commit") <= 1
    /\ (Failed("mvn versions:set") \/ Failed("mvn deploy")) =>
         (~Invoked("git add") /\ ~Invoked("git commit"))

C2_Witness ==
    /\ Exited
    /\ Failed("mvn deploy")
    /\ Len(versions) >= 1
    /\ ~Invoked("git add")

BuilderFailed ==
    Failed("mvn package") \/ Failed("mvn versions:set") \/ Failed("mvn deploy")

BranchUnchanged ==
    /\ deployBranch = before.branch
    /\ originBranch = before.originBranch

TagsUnchanged ==
    /\ projTags = before.tags
    /\ originTags = before.originTags

\* C3 as stated: after a run in which a Builder step failed, the tags of the
\* project repository, the artifact branch and the refs of both origins are
\* what they were before the run.
C3_Original == (Exited /\ BuilderFailed) => (TagsUnchanged /\ BranchUnchanged)

\* C3, amended: after a run in which a Builder step failed, the artifact
\* branch in the deployment repository and on its origin is what it was
\* before the run; the tags of the project repository and of its origin are
\* what they were before the run when the run has no release label or the
\* package build failed, and otherwise differ from that by exactly the
\* release tag, created on HEAD and pushed to origin.
C3_Amended ==
    (Exited /\ BuilderFailed) =>
        /\ BranchUnchanged
        /\ IF release = None \/ Failed("mvn package")
           THEN TagsUnchanged
           ELSE /\ projTags = [before.tags EXCEPT ![release] = "M"]
                /\ originTags = before.originTags \cup {release}

C3_Witness ==
    /\ Exited
    /\ release # None
    /\ Failed("mvn deploy")
    /\ projTags # before.tags
    /\ release \in originTags
    /\ release \notin before.originTags

BuildRevisionSteps == {"name_rev", "checkout", "versions_set", "deploy"}

\* The lines on standard error that report how the run ended.
DiagnosticLines == {k \in 1..Len(stderr) : stderr[k].kind # "progress"}

\* Standard error ends with the one line that names the command that failed.
ReportsFailedCommand ==
    /\ Cardinality(DiagnosticLines) = 1
    /\ stderr[Len(stderr)].kind = "error"
    /\ log # <<>>
    /\ ~log[Len(log)].ok
    /\ stderr[Len(stderr)].cmd = log[Len(log)].cmd

\* C4: when a step of BUILD_REVISION fails (label resolution, checkout,
\* versions:set or deploy), no commit is produced, the artifact branch in
\* the deployment repository and on its origin is what it was before the
\* run, and the process exits with code 1 after reporting the failed command.
C4_Claim ==
    (Exited /\ raised.at \in BuildRevisionSteps /\ raised.exc # "KeyboardInterrupt") =>
        /\ ~Invoked("git commit")
        /\ BranchUnchanged
        /\ exitCode = 1
        /\ ReportsFailedCommand

\* C5: the exit status is 0, with the confirmation line printed, only when
\* every step up to and including the pushes completed; 1, with exactly one
\* diagnostic line on standard error, for every operational error; 2 when
\* the operator interrupts; and the confirmation line is never printed in a
\* run that exits non-zero.
C5_Claim ==
    Exited =>
        /\ exitCode \in {0, 1, 2}
        /\ (exitCode = 0) <=> (raised = NoException /\ Succeeded("git push origin"))
        /\ (exitCode = 0) => stdout
        /\ (raised.exc \notin {"none", "KeyboardInterrupt"}) =>
              /\ exitCode = 1
              /\ Cardinality(DiagnosticLines) = 1
              /\ stderr[Len(stderr)].kind = "error"
        /\ (raised.exc = "KeyboardInterrupt") => exitCode = 2
        /\ (exitCode # 0) => ~stdout

\* The revision the loop is at, in project_repo_clone.
CurrentCommit == Resolve(cloneTags, revisions[i])

Suffixed(t) == t \o <<"^", "0">>

\* C6: when the tag lookup for a revision names a tag T on it, as T or as
\* T with the suffix '^0', the label git_name_rev returns is T, the name of
\* a tag of the store; and two revisions of a batch that are the same
\* commit, which the tags let the lookup name only by T, get the same label
\* T, however the lookup printed it (stated where the loop has just added
\* a label: the labels do not change in between).
C6_LabelIsTagName ==
    /\ (pc = "checkout") =>
          \A t \in TagsAt(cloneTags, CurrentCommit) :
              (res \in {t, Suffixed(t)}) => (version = t /\ cloneTags[version] # "none")
    /\ (pc \in {"name_rev", "add"}) =>
          \A j \in 1..Len(versions) :
              LET c    == Resolve(cloneTags, revisions[j])
                  outs == NameRevOutputs(cloneTags, c)
                  same == {k \in 1..Len(versions) : Resolve(cloneTags, revisions[k]) = c}
              IN  \A t \in TagsAt(cloneTags, c) :
                     (outs = {t, Suffixed(t)}) => \A k \in same : versions[k] = t

C6_Witness ==
    /\ pc = "checkout"
    /\ res = Suffixed(V2)
    /\ version = V2
    /\ cloneTags[V2] = CurrentCommit

\* The places of the disambiguation markers of git in a lookup result.
Markers(out) == {k \in 1..Len(out) : out[k] \in {"^", "~"}}

\* The result carries a marker that is not the one suffix '^0'.
OtherMarker(out) ==
    /\ Markers(out) # {}
    /\ ~(Markers(out) = {Len(out) - 1} /\ SubSeq(out, Len(out) - 1, Len(out)) = <<"^", "0">>)

\* C7: when label resolution fails for a revision, because the lookup
\* command finds no tag or because its result carries a marker other than
\* the suffix '^0', the run ends there, before the revision is checked out
\* or built, with exit code 1 and a single diagnostic line and no stack
\* detail.
C7_Claim ==
    ((log # <<>> /\ log[Len(log)].cmd = "git name-rev" /\ ~log[Len(log)].ok)
        \/ OtherMarker(res)) =>
        /\ Exited
        /\ raised.at = "name_rev"
        /\ exitCode = 1
        /\ Cardinality(DiagnosticLines) = 1
        /\ stderr[Len(stderr)].kind = "error"

AllDigits(s) == \A k \in 1..Len(s) : IsDigit(s[k])

\* The integer a run of digits denotes.
RECURSIVE DigitsValue(_)
DigitsValue(d) ==
    IF d = <<>> THEN 0
    ELSE 10 * DigitsValue(SubSeq(d, 1, Len(d) - 1)) + (Ord(d[Len(d)]) - Ord("0"))

\* a and b are equal except for one maximal run of digits, and the run of
\* a denotes the smaller integer.
SmallerInOneRun(a, b) ==
    \E p \in 0..Len(a) : \E m \in 1..Len(a) : \E n \in 1..Len(b) :
        /\ p + m <= Len(a)
        /\ p + n <= Len(b)
        /\ SubSeq(a, 1, p) = SubSeq(b, 1, p)
        /\ SubSeq(a, p + m + 1, Len(a)) = SubSeq(b, p + n + 1, Len(b))
        /\ AllDigits(SubSeq(a, p + 1, p + m))
        /\ AllDigits(SubSeq(b, p + 1, p + n))
        /\ p = 0 \/ ~IsDigit(a[p])
        /\ p + m = Len(a) \/ ~IsDigit(a[p + m + 1])
        /\ DigitsValue(SubSeq(a, p + 1, p + m)) < DigitsValue(SubSeq(b, p + 1, p + n))

\* Place of the first x in seq.
Position(x, seq) == CHOOSE k \in 1..Len(seq) : seq[k] = x /\ \A j \in 1..(k - 1) : seq[j] # x

\* The message of the commit the run made.
CommittedMessage == cloneHead[Len(cloneHead)].message

\* C8: in the commit message, of two labels that are equal except for one
\* maximal run of digits, the one whose run denotes the smaller integer is
\* listed first.
C8_Claim ==
    Succeeded("git commit") =>
        \A j, k \in 1..Len(versions) :
            SmallerInOneRun(versions[j], versions[k]) =>
                Position(versions[j], CommittedMessage.labels)
                    < Position(versions[k], CommittedMessage.labels)

\* The permutations of 1..n, for every length a batch can have.
PermTable ==
    [n \in 0..(MaxBatch + 1) |->
        {f \in [1..n -> 1..n] : \A a, b \in 1..n : a # b => f[a] # f[b]}]

Perms(n) == PermTable[n]

Permuted(vs, f) == [k \in 1..Len(vs) |-> vs[f[k]]]

\* The batches that hold the revisions of vs in some order.
PermutationsOf(vs) == {Permuted(vs, f) : f \in Perms(Len(vs))}

\* C9: a run that ends successfully has made exactly one commit, after the
\* last revision of the batch was deployed; the message lists the label of
\* every revision of the batch, and it is the message of every permutation
\* of the batch.
C9_OneCommitAnyOrder ==
    (Exited /\ exitCode = 0) =>
        /\ TimesInvoked("git commit") = 1
        /\ Succeeded("git commit")
        /\ \A k \in LogIndex :
              log[k].cmd = "git commit" =>
                  /\ \A j \in LogIndex : log[j].cmd = "mvn deploy" => (j < k /\ log[j].ok)
                  /\ Cardinality({j \in 1..k : log[j].cmd = "mvn deploy"}) = Len(revisions)
        /\ Len(versions) = Len(revisions)
        /\ cloneHead = Append(before.branch, cloneHead[Len(cloneHead)])
        /\ CommittedMessage.labels \in PermutationsOf(versions)
        /\ \A vs \in PermutationsOf(versions) : CommitMessage(vs) = CommittedMessage

C9_Witness ==
    /\ Exited
    /\ exitCode = 0
    /\ Len(versions) = 2
    /\ versions = <<V10, V2>>
    /\ argv = <<ArgRev("HEAD"), ArgRev("A")>>
    /\ CommittedMessage.labels = <<V2, V10>>

\* C10: without debug the workspace does not exist when the process ends,
\* however the run ended; with debug, a run that got as far as the with
\* block leaves the workspace, and the base directory, in place.
C10_WorkspaceReleased ==
    Exited =>
        /\ ~debug => workspace # "present"
        /\ (~debug /\ raised.at \notin {"parse_args", "get_project_repo",
                                       "get_deploy_repo", "make_temp_dir"}) =>
              workspace = "removed"
        /\ (debug /\ raised.at \notin {"parse_args", "get_project_repo",
                                      "get_deploy_repo", "make_temp_dir"}) =>
              (workspace = "present" /\ baseDir)

C10_Witness ==
    /\ Exited
    /\ ~debug
    /\ raised.exc = "KeyboardInterrupt"
    /\ raised.at = "deploy"
    /\ workspace = "removed"

\* The labels whose artifacts the deploy steps of this run wrote and that the
\* run then committed.
DeployedLabels == {versions[k] : k \in 1..Len(versions)}

DeployRepoCommands ==
    {"git clone deploy_repo", "git checkout branch", "git reset --soft"}

\* C11: after a run that ended with status 0 the artifact branch of the
\* deployment repository is its history before the run plus exactly one new
\* commit.  If the branch existed, the parent of the new commit is the old
\* tip and its tree is the tree of the old tip plus the artifacts deployed by
\* this run, nothing lost; if the branch was absent, the scratch repository
\* was initialised empty, the deployment repository was neither cloned nor
\* checked out nor reset, and the new commit is a root commit.
C11_OneNewCommit ==
    (Exited /\ exitCode = 0) =>
        /\ Len(deployBranch) = Len(before.branch) + 1
        /\ SubSeq(deployBranch, 1, Len(before.branch)) = before.branch
        /\ TipTree(deployBranch) = TipTree(before.branch) \cup DeployedLabels
        /\ IF before.branch # <<>>
           THEN /\ \A c \in DeployRepoCommands : Succeeded(c)
                /\ ~Invoked("git init --bare")
           ELSE /\ Succeeded("git init --bare")
                /\ \A c \in DeployRepoCommands : ~Invoked(c)
                /\ Len(deployBranch) = 1

C11_Witness ==
    /\ Exited
    /\ exitCode = 0
    /\ before.branch # <<>>
    /\ Len(deployBranch) = 2
    /\ deployBranch[1] = before.branch[1]
    /\ V10 \in TipTree(deployBranch)
    /\ V2 \in TipTree(deployBranch)
    /\ V10 \notin TipTree(before.branch)

\* The commands of a whole run, in the order main() invokes them, for the
\* arguments and the deployment repository of this run.
StartCommands == <<"git rev-parse --git-dir", "git rev-parse --git-dir">>

TagReleaseCommands ==
    IF release = None THEN <<>>
    ELSE <<"git checkout", "mvn package", "git tag", "git push tag">>

PrepareBranchCommands ==
    IF before.branch # <<>>
    THEN <<"git rev-parse branch", "git clone deploy_repo",
           "git checkout branch", "git reset --soft", "git clone project_repo">>
    ELSE <<"git rev-parse branch", "git init --bare", "git clone project_repo">>

BuildRevisionCommands ==
    <<"git name-rev", "git checkout revision", "mvn versions:set", "mvn deploy">>

\* The size of the batch: the revisions of the command line, 'HEAD' when
\* there are none, and the release revision.
BatchSize ==
    (IF argv = <<>> THEN 1 ELSE Len(argv)) + (IF release = None THEN 0 ELSE 1)

RECURSIVE Repeated(_, _)
Repeated(s, n) == IF n = 0 THEN <<>> ELSE s \o Repeated(s, n - 1)

PublishCommands ==
    <<"git add", "git commit", "git push deploy_repo", "git push origin">>

ExpectedCommands ==
    StartCommands \o TagReleaseCommands \o PrepareBranchCommands
        \o Repeated(BuildRevisionCommands, BatchSize) \o PublishCommands

InvokedCommands == [k \in LogIndex |-> log[k].cmd]

\* The labels git_name_rev can return for the k-th revision of the batch.
LabelsOf(k) ==
    {ParseNameRev(out).res :
        out \in NameRevOutputs(cloneTags, Resolve(cloneTags, revisions[k]))}

\* C12: the commands a run has invoked are a prefix of the sequence START,
\* TAG_RELEASE if there is a release label, PREPARE_BRANCH, the four steps
\* of BUILD_REVISION (resolve the label, check out, versions:set, deploy)
\* once per revision in the order of the batch, commit, push to the
\* deployment repository, push to origin; a command is invoked only after
\* every command before it succeeded, the probe for the branch apart; the
\* k-th label deployed is a label of the k-th revision; and the run reports
\* success only after the whole sequence.
C12_OrderOfOperations ==
    /\ LET expected == ExpectedCommands
       IN  /\ Len(log) <= Len(expected)
           /\ \A k \in LogIndex :
                /\ log[k].cmd = expected[k]
                /\ k < Len(log) =>
                     (log[k].ok \/ log[k].cmd = "git rev-parse branch")
    /\ Len(versions) = Cardinality({k \in LogIndex : log[k].cmd = "mvn deploy" /\ log[k].ok})
    /\ pc \in {"name_rev", "add"} =>
         \A k \in 1..Len(versions) : versions[k] \in LabelsOf(k)
    /\ log # <<>> =>
         IsPrefix(IF argv = <<>> THEN <<ArgRev("HEAD")>> ELSE argv, revisions)
    /\ Invoked("git add") => Len(versions) = BatchSize
    /\ deployBranch # before.branch => Succeeded("git commit")
    /\ originBranch # before.originBranch => Succeeded("git push deploy_repo")
    /\ stdout => (InvokedCommands = ExpectedCommands /\ log[Len(log)].ok)

C12_Witness ==
    /\ Exited
    /\ exitCode = 0
    /\ release # None
    /\ Len(argv) = 2
    /\ before.branch # <<>>
    /\ InvokedCommands = ExpectedCommands
    /\ Len(versions) = 3

Probe == "git rev-parse branch"

\* The last command invoked, and whether it ended well.
LastOk(l, cmd) == l # <<>> /\ l[Len(l)].cmd = cmd /\ l[Len(l)].ok

\* The steps of a run in the order main() comes to them; clone, checkout
\* and reset of the deployment repository are one way from the probe to the
\* clone of the project repository, init is the other.
StepOrder ==
    <<"parse_args", "get_project_repo", "get_deploy_repo", "make_temp_dir",
      "release_checkout", "release_package", "release_tag", "release_push",
      "ref_exists", "deploy_clone", "deploy_checkout", "deploy_reset",
      "deploy_init", "project_clone", "name_rev", "checkout", "versions_set",
      "deploy", "add", "commit", "push_local", "push_remote", "print",
      "exited">>

Rank(s) == CHOOSE k \in 1..Len(StepOrder) : StepOrder[k] = s

\* C13: a step of the run invokes at most one command, that of the step the
\* run is at, and leaves that step: the run moves forward through the steps
\* and goes back only from a deploy that succeeded to the resolution of the
\* next revision, so no command of a step is invoked a second time.  No
\* command is invoked after a command that exited non-zero: such a command
\* ends the run there with a UserError and exit status 1.  The one exception
\* is the probe for the artifact branch: its exit status raises nothing and
\* selects the step that follows, clone when it is zero and init when it is
\* not.
C13_FailFast ==
    [][LET n == Len(log)
       IN  /\ pc' # pc =>
                \/ Rank(pc') > Rank(pc)
                \/ /\ pc = "deploy"
                   /\ pc' = "name_rev"
                   /\ LastOk(log', "mvn deploy")
                   /\ i' = i + 1
                   /\ i' <= Len(revisions)
           /\ pc' = pc => log' = log
           /\ log' # log =>
                /\ log' = Append(log, log'[n + 1])
                /\ log'[n + 1].at = pc
                /\ n > 0 => (log[n].ok \/ log[n].cmd = Probe)
                /\ (log'[n + 1].cmd = Probe) = (pc = "ref_exists")
                /\ IF pc = "ref_exists"
                   THEN /\ raised' = raised
                        /\ pc' = (IF log'[n + 1].ok THEN "deploy_clone"
                                  ELSE "deploy_init")
                        /\ log'[n + 1].ok = (deployBranch # <<>>)
                   ELSE ~log'[n + 1].ok =>
                            /\ pc' = "exited"
                            /\ raised' = [at |-> pc, exc |-> "UserError"]
                            /\ exitCode' = 1
      ]_vars

C13_Witness ==
    /\ Exited
    /\ Failed(Probe)
    /\ Succeeded("git init --bare")
    /\ Failed("mvn versions:set")
    /\ log[Len(log)].cmd = "mvn versions:set"
    /\ Len(versions) = 1
    /\ exitCode = 1

\* C14 as stated: the checkout of the artifact branch changes only in a
\* deploy step that succeeds.
C14_Original ==
    [][checkout' # checkout => (pc = "deploy" /\ LastOk(log', "mvn deploy"))]_vars

\* C14, amended: the checkout of the artifact branch changes only when the
\* tip of the branch is checked out into the still empty directory while
\* the branch is prepared, and in the deploy step of a revision, which
\* follows a successful versions:set of that revision and adds artifacts of
\* that revision only.  A deploy step that fails may have written such
\* artifacts; the run ends there, without a commit and with the artifact
\* branch and its origin as they were before the run.
C14_Amended ==
    [][/\ checkout' # checkout =>
            \/ /\ pc = "deploy_checkout"
               /\ checkout = {}
               /\ checkout' = TipTree(before.branch)
            \/ /\ pc = "deploy"
               /\ LastOk(log, "mvn versions:set")
               /\ log'[Len(log')].cmd = "mvn deploy"
               /\ checkout' = checkout \cup {version}
       /\ (pc = "deploy" /\ ~LastOk(log', "mvn deploy")) =>
            /\ pc' = "exited"
            /\ cloneHead' = before.branch
            /\ deployBranch' = before.branch
            /\ originBranch' = before.originBranch
            /\ \A k \in 1..Len(log') : log'[k].cmd \notin {"git add", "git commit"}
      ]_vars

C14_Witness ==
    /\ Exited
    /\ Failed("mvn deploy")
    /\ version \in checkout
    /\ version \notin TipTree(before.branch)
    /\ version \notin DeployedLabels
    /\ cloneHead = before.branch
    /\ BranchUnchanged

\* A release run that failed after the release tag was created and pushed.
FailedAfterRelease ==
    /\ Exited
    /\ exitCode = 1
    /\ release # None
    /\ Succeeded("git push tag")

ReleaseTagInPlace ==
    /\ projTags = [before.tags EXCEPT ![release] = "M"]
    /\ originTags = before.originTags \cup {release}

\* C15 as stated: after a release run that failed once the tag was pushed,
\* the tag is in the project repository and on origin and the artifact
\* branch is what it was before the run.
C15_Original == FailedAfterRelease => (ReleaseTagInPlace /\ BranchUnchanged)

\* C15, amended: after a release run that failed once the tag was pushed,
\* the tag is in the project repository and on origin, and the artifact
\* branch on origin is what it was before the run.  The artifact branch in
\* the deployment repository is what it was before the run unless the step
\* that failed is the push to origin: then it holds the one new commit,
\* which the push to the deployment repository has put there.
C15_Amended ==
    FailedAfterRelease =>
        /\ ReleaseTagInPlace
        /\ originBranch = before.originBranch
        /\ IF raised.at = "push_remote"
           THEN /\ Len(deployBranch) = Len(before.branch) + 1
                /\ IsPrefix(before.branch, deployBranch)
           ELSE deployBranch = before.branch

C15_Witness ==
    /\ FailedAfterRelease
    /\ raised.at = "push_remote"
    /\ Failed("git push origin")
    /\ projTags[release] = "M"
    /\ release \in originTags
    /\ release \notin before.originTags
    /\ deployBranch # before.branch
    /\ originBranch = before.originBranch

\* Every revision of the batch has been deployed, and the checkout holds
\* what the tip of the artifact branch held before the run.
NothingToCommit ==
    /\ Len(versions) = BatchSize
    /\ checkout = TipTree(before.branch)

\* C16: when every revision has been deployed and the checkout is identical
\* to the tree of the tip of the artifact branch, git commit does not
\* succeed and is not invoked a second time, neither push is invoked, the
\* artifact branch in the deployment repository and on origin is what it
\* was, and once git commit has been invoked the run has ended with a
\* UserError raised there and exit status 1.
C16_NothingToCommitFails ==
    NothingToCommit =>
        /\ ~Succeeded("git commit")
        /\ TimesInvoked("git commit") <= 1
        /\ ~Invoked("git push deploy_repo")
        /\ ~Invoked("git push origin")
        /\ BranchUnchanged
        /\ Invoked("git commit") =>
             /\ Exited
             /\ raised = [at |-> "commit", exc |-> "UserError"]
             /\ exitCode = 1
             /\ ~stdout

C16_Witness ==
    /\ NothingToCommit
    /\ Exited
    /\ Failed("git commit")
    /\ before.branch # <<>>
    /\ DeployedLabels = TipTree(before.branch)
    /\ exitCode = 1

\* The positions of the release revision in the batch.
ReleasePositions == {k \in 1..Len(revisions) : revisions[k] = TagRev(release)}

\* C17: in a release run the label under which the release revision is
\* stamped and deployed, and which the commit message lists for it, is the
\* release label given on the command line.
C17_Claim ==
    release # None =>
        /\ \A k \in ReleasePositions : k <= Len(versions) => versions[k] = release
        /\ (pc \in {"checkout", "versions_set", "deploy"} /\ i \in ReleasePositions) =>
              version = release
        /\ (Exited /\ exitCode = 0) =>
              \E k \in 1..Len(CommittedMessage.labels) :
                  CommittedMessage.labels[k] = release

\* C18: the batch that BUILD_REVISION processes is never empty, and in a
\* release run with no revision on the command line it is the release
\* revision alone, which is deployed once and listed once in the commit
\* message.
C18_Claim ==
    pc \in (BuildRevisionSteps \cup {"add", "commit", "push_local", "push_remote", "print"}) =>
        /\ revisions # <<>>
        /\ (release # None /\ argv = <<>>) =>
              /\ revisions = <<TagRev(release)>>
              /\ Len(versions) <= 1
              /\ pc \in {"push_local", "push_remote", "print"} =>
                    Len(CommittedMessage.labels) = 1

====
